---- MODULE Spec2Model ----
(***************************************************************************)
(* Model of the fibbage-game room server (src/server.js): the room         *)
(* registry, the per-room phase machine with its timers, the connection    *)
(* sessions and the messages each handler sends.                           *)
(***************************************************************************)
EXTENDS Integers, Sequences, FiniteSets, TLC

(***************************************************************************)
(* Bounds of the model.                                                    *)
(***************************************************************************)
MaxConns == 3
MaxRooms == 2
MaxPlayers == 2
MaxGames == 2
MaxResets == 1
MaxAnswerInput == 3
ExtraQuestions == 1

(***************************************************************************)
(* Program constants.                                                      *)
(***************************************************************************)
PoolCap == 20
MaxCategories == 3
MinAnswers == 6
MaxLieLen == 80
MaxNameLen == 16
RoomCap == 8
MinPlayers == 2
TruthPoints == 1000
FoolPoints == 500

T_CATEGORY == 15000
T_CATEGORY_ALL == 1000
T_SHOW == 3000
T_LIE == 45000
T_LIE_ALL == 3000
T_VOTE == 30000
T_VOTE_ALL == 1500
T_REVEAL_PER == 3000
T_SCOREBOARD == 5000

(***************************************************************************)
(* Text: a string is a sequence of one-character strings.                  *)
(***************************************************************************)
Lower == [c \in {"A", "C", "D", "G", "M", "E"} |->
            CASE c = "A" -> "a" [] c = "C" -> "c" [] c = "D" -> "d"
              [] c = "G" -> "g" [] c = "M" -> "m" [] c = "E" -> "e"]

AlNum == {"a", "c", "d", "e", "g", "k", "i", "l", "m", "o", "t", "u", "w", "z"}

Blank == {" "}

ToLower(c) == IF c \in DOMAIN Lower THEN Lower[c] ELSE c

Strip(s) == SelectSeq(s, LAMBDA ch : ch \in AlNum)

normalize(s) == Strip([i \in 1..Len(s) |-> ToLower(s[i])])

RECURSIVE TrimLeft(_)
TrimLeft(s) ==
  IF s # <<>> /\ Head(s) \in Blank THEN TrimLeft(Tail(s)) ELSE s

RECURSIVE TrimRight(_)
TrimRight(s) ==
  IF s # <<>> /\ s[Len(s)] \in Blank THEN TrimRight(SubSeq(s, 1, Len(s) - 1)) ELSE s

Trim(s) == TrimRight(TrimLeft(s))

Includes(s, t) ==
  \E i \in 0..(Len(s) - Len(t)) : SubSeq(s, i + 1, i + Len(t)) = t

Min2(a, b) == IF a < b THEN a ELSE b

Max2(a, b) == IF a > b THEN a ELSE b

RECURSIVE levenshtein(_, _)
levenshtein(a, b) ==
  IF Len(a) = 0 THEN Len(b)
  ELSE IF Len(b) = 0 THEN Len(a)
  ELSE LET a1 == SubSeq(a, 1, Len(a) - 1)
           b1 == SubSeq(b, 1, Len(b) - 1)
       IN IF a[Len(a)] = b[Len(b)] THEN levenshtein(a1, b1)
          ELSE 1 + Min2(levenshtein(a1, b), Min2(levenshtein(a, b1), levenshtein(a1, b1)))

SimilarTo(nl, t) ==
  \/ nl = t
  \/ Includes(nl, t)
  \/ Includes(t, nl)
  \/ /\ Len(t) > 2
     /\ Len(nl) > 2
     /\ levenshtein(nl, t) <= Max2(1, (Len(t) * 3) \div 10)

isTooSimilar(lie, truth, alts) ==
  LET nl == normalize(lie)
      targets == <<normalize(truth)>> \o [i \in 1..Len(alts) |-> normalize(alts[i])]
  IN \E i \in 1..Len(targets) : SimilarTo(nl, targets[i])

(***************************************************************************)
(* Names, texts and questions the model draws its inputs from.             *)
(***************************************************************************)
GAME == <<"_", "_", "G", "A", "M", "E", "_", "_">>

NameA == <<"A">>

NameC == <<"C">>

NoName == <<>>

\* the names of a crowd that fills a room
Guests == [i \in 1..(RoomCap - 1) |-> <<"P", <<"1", "2", "3", "4", "5", "6", "7">>[i]>>]

NameOrder == <<NameA, NameC, GAME>> \o Guests

Names == {NameOrder[i] : i \in 1..Len(NameOrder)}

T_cat == <<"c", "a", "t">>

T_kit == <<"k", "i", "t">>

T_dog == <<"d", "o", "g">>

T_owl == <<"o", "w", "l">>

T_Dog == <<"D", "o", "g">>

LongLie == [i \in 1..(MaxLieLen + 1) |-> "z"]

\* the truth followed by more than 80 further characters
LongTruth == T_cat \o LongLie

\* texts that the matcher finds too similar to the truth or to the alternate
SimilarInputs ==
  { T_cat, <<"C", "a", "t", " ">>, <<" ", "c", "a", "t", "!">>, <<"c", "o", "t">>,
    T_kit, <<"-">>, LongTruth }

LieInputs ==
  { T_dog, T_owl, <<" ", "o", "w", "l">>, T_cat, <<"C", "a", "t", " ">>,
    <<"c", "o", "t">>, <<"a">>, <<"-">>, <<>>, <<" ">>, LongLie }

Question(cat, ds) ==
  [category |-> cat, answer |-> T_cat, alts |-> <<T_kit>>, decoys |-> ds]

NoQuestion == [category |-> "none", answer |-> <<>>, alts |-> <<>>, decoys |-> <<>>]

Q1 == Question("c1", <<>>)

Q2 == Question("c2", <<T_Dog>>)

Q3 == Question("c2", <<>>)

Conns == 1..MaxConns

NoWs == 0

Codes == 1..MaxRooms

NoRoom == 0

NoTimer == -1

VARIABLES questions, conns, rooms, pending

vars == <<questions, conns, rooms, pending>>

(***************************************************************************)
(* Sequences and sets.                                                     *)
(***************************************************************************)
Range(s) == {s[i] : i \in 1..Len(s)}

Count(s, x) == Cardinality({i \in 1..Len(s) : s[i] = x})

Shuffles(s) ==
  {t \in [1..Len(s) -> Range(s)] : \A x \in Range(s) : Count(t, x) = Count(s, x)}

RemoveAt(s, i) == SubSeq(s, 1, i - 1) \o SubSeq(s, i + 1, Len(s))

RECURSIVE SelectNames(_, _)
SelectNames(order, S) ==
  IF order = <<>> THEN <<>>
  ELSE IF Head(order) \in S THEN <<Head(order)>> \o SelectNames(Tail(order), S)
  ELSE SelectNames(Tail(order), S)

EmptyMap == [x \in {} |-> 0]

Put(f, k, v) == [x \in DOMAIN f \cup {k} |-> IF x = k THEN v ELSE f[x]]

(***************************************************************************)
(* Messages.  A handler works on a context: the room, the room's pending   *)
(* timers and the messages sent so far.                                    *)
(***************************************************************************)
Msg(type, ids, cats, phase) ==
  [to |-> NoWs, type |-> type, ids |-> ids, cats |-> cats, phase |-> phase]

Plain(type) == Msg(type, <<>>, {}, "")

isOpen(ws) == ws # NoWs /\ conns[ws].st = "open"

sendTo(ctx, ws, m) ==
  IF isOpen(ws) THEN [ctx EXCEPT !.out = Append(@, [m EXCEPT !.to = ws])] ELSE ctx

RECURSIVE sendEach(_, _, _)
sendEach(ctx, wss, m) ==
  IF wss = <<>> THEN ctx ELSE sendEach(sendTo(ctx, Head(wss), m), Tail(wss), m)

PlayerSeq(room) == SelectNames(NameOrder, DOMAIN room.players)

broadcast(ctx, m) ==
  LET ps == PlayerSeq(ctx.room)
  IN sendEach(sendTo(ctx, ctx.room.hostWs, m),
              [i \in 1..Len(ps) |-> ctx.room.players[ps[i]].ws], m)

(***************************************************************************)
(* Timers.                                                                 *)
(***************************************************************************)
clearTimer(ctx) ==
  IF ctx.room.timer # NoTimer
  THEN [ctx EXCEPT !.tm = {t \in @ : t.id # ctx.room.timer}, !.room.timer = NoTimer]
  ELSE ctx

FreshId(tm) == CHOOSE i \in 0..Cardinality(tm) : \A t \in tm : t.id # i

\* at: when the timer is due, in ms since the room entered its phase
setTimeout(ctx, cb, ms) ==
  LET id == FreshId(ctx.tm)
  IN [ctx EXCEPT !.tm = @ \cup {[id |-> id, cb |-> cb, ms |-> ms,
                                 at |-> ctx.room.since + ms]},
                 !.room.timer = id]

(***************************************************************************)
(* Question supply.                                                        *)
(***************************************************************************)
pickQuestions(bank) ==
  {SubSeq(sh, 1, Min2(PoolCap, Len(sh))) : sh \in Shuffles(bank)}

PoolCategories(pool) == {pool[i].category : i \in 1..Len(pool)}

getCategories(pool) ==
  IF pool = <<>> THEN {{}}
  ELSE {S \in SUBSET PoolCategories(pool) :
          Cardinality(S) = Min2(MaxCategories, Cardinality(PoolCategories(pool)))}

FindIndex(pool, category) ==
  LET hits == {i \in 1..Len(pool) : pool[i].category = category}
  IN IF hits = {} THEN 0 ELSE CHOOSE i \in hits : \A j \in hits : i <= j

pickQuestionFromCategory(pool, category) ==
  LET idx == FindIndex(pool, category)
      at == IF idx = 0 THEN 1 ELSE idx
  IN IF pool = <<>> THEN [q |-> NoQuestion, pool |-> pool]
     ELSE [q |-> pool[at], pool |-> RemoveAt(pool, at)]

roundMultiplier(room) ==
  IF room.round = 1 THEN 1 ELSE IF room.round = 2 THEN 2 ELSE 3

\* questionsInRound with three questions in the final round too
questionsInRound_flat(round) == 3

questionsInRound(round) ==
  IF round = 1 THEN 3 ELSE IF round = 2 THEN 3 ELSE 1

(***************************************************************************)
(* The phase machine.  Random draws are parameters of the operators.       *)
(***************************************************************************)
endGame(ctx) ==
  LET c1 == clearTimer(ctx)
      c2 == [c1 EXCEPT !.room.phase = "game-over", !.room.state = "ended"]
  IN broadcast(c2, Plain("game-over"))

\* nextQuestion that opens the category vote whatever the categories
nextQuestion_noEmptyCheck(ctx, cats) ==
  LET n == ctx.room.questionNum + 1
      over == n > questionsInRound(ctx.room.round)
      c1 == IF over
            THEN [ctx EXCEPT !.room.round = @ + 1, !.room.questionNum = 1]
            ELSE [ctx EXCEPT !.room.questionNum = n]
  IN IF over /\ c1.room.round > 3 THEN endGame(c1)
     ELSE LET c2 == IF over THEN broadcast(c1, Plain("new-round")) ELSE c1
              c3 == [c2 EXCEPT !.room.phase = "category-select",
                               !.room.categories = cats,
                               !.room.categoryVotes = <<>>]
          IN setTimeout(
               clearTimer(broadcast(c3, Msg("category-select", <<>>, cats, ""))),
               "selectCategory", T_CATEGORY)

nextQuestion(ctx, cats) ==
  LET n == ctx.room.questionNum + 1
      over == n > questionsInRound(ctx.room.round)
      c1 == IF over
            THEN [ctx EXCEPT !.room.round = @ + 1, !.room.questionNum = 1]
            ELSE [ctx EXCEPT !.room.questionNum = n]
  IN IF over /\ c1.room.round > 3 THEN endGame(c1)
     ELSE LET c2 == IF over THEN broadcast(c1, Plain("new-round")) ELSE c1
              c3 == [c2 EXCEPT !.room.phase = "category-select",
                               !.room.categories = cats,
                               !.room.categoryVotes = <<>>]
          IN IF cats = {} THEN endGame(c3)
             ELSE setTimeout(
                    clearTimer(broadcast(c3, Msg("category-select", <<>>, cats, ""))),
                    "selectCategory", T_CATEGORY)

startGame(ctx, pool, cats) ==
  LET c1 == [ctx EXCEPT !.room.state = "playing",
                        !.room.round = 1,
                        !.room.questionNum = 0,
                        !.room.players = [n \in DOMAIN @ |-> [@[n] EXCEPT !.score = 0]],
                        !.room.questionPool = pool,
                        !.room.asked = 0,
                        !.room.clean = TRUE,
                        !.room.games = @ + 1]
  IN nextQuestion(broadcast(c1, Plain("game-start")), cats)

Tally(cv, cat) == Cardinality({i \in 1..Len(cv) : cv[i][2] = cat})

\* the categories that received a vote, in the order of their first vote
RECURSIVE VotedOrder(_)
VotedOrder(cv) ==
  IF cv = <<>> THEN <<>>
  ELSE LET rest == VotedOrder(SubSeq(cv, 1, Len(cv) - 1))
           cat == cv[Len(cv)][2]
       IN IF cat \in Range(rest) THEN rest ELSE Append(rest, cat)

RECURSIVE MaxScan(_, _, _, _)
MaxScan(cv, order, max, chosen) ==
  IF order = <<>> THEN chosen
  ELSE IF Tally(cv, Head(order)) > max
       THEN MaxScan(cv, Tail(order), Tally(cv, Head(order)), Head(order))
       ELSE MaxScan(cv, Tail(order), max, chosen)

selectCategory(ctx, rnd) ==
  LET c1 == clearTimer(ctx)
      cv == c1.room.categoryVotes
      chosen == MaxScan(cv, VotedOrder(cv), 0, rnd)
      pk == pickQuestionFromCategory(c1.room.questionPool, chosen)
      c2 == [c1 EXCEPT !.room.questionPool = pk.pool,
                       !.room.currentQuestion = pk.q,
                       !.room.lies = EmptyMap,
                       !.room.votes = EmptyMap,
                       !.room.phase = "show-question",
                       !.room.asked = @ + 1,
                       !.room.builds = 0,
                       !.room.reveals = 0]
  IN setTimeout(broadcast(c2, Plain("show-question")), "startLiePhase", T_SHOW)

startLiePhase(ctx) ==
  LET c1 == [clearTimer(ctx) EXCEPT !.room.phase = "lie"]
  IN setTimeout(broadcast(c1, Plain("lie-phase")), "startVoting", T_LIE)

ActivePlayers(room) == {n \in DOMAIN room.players : room.players[n].ws # NoWs}

checkAllLiesIn(ctx) ==
  LET active == ActivePlayers(ctx.room)
  IN IF active # {} /\ \A n \in active : n \in DOMAIN ctx.room.lies
     THEN setTimeout(broadcast(clearTimer(ctx), Plain("all-lies-in")),
                     "startVoting", T_LIE_ALL)
     ELSE ctx

\* the decoys of the question that startVoting adds, in order
RECURSIVE AddDecoys(_, _, _)
AddDecoys(decoys, used, needed) ==
  IF decoys = <<>> \/ needed <= 0 THEN <<>>
  ELSE IF normalize(Head(decoys)) \notin used
       THEN <<[text |-> Head(decoys), isTrue |-> FALSE, author |-> GAME]>>
              \o AddDecoys(Tail(decoys), used \cup {normalize(Head(decoys))}, needed - 1)
       ELSE AddDecoys(Tail(decoys), used, needed)

BuildAnswers(room) ==
  LET liars == SelectNames(NameOrder, DOMAIN room.lies)
      base == <<[text |-> room.currentQuestion.answer, isTrue |-> TRUE, author |-> NoName]>>
                \o [i \in 1..Len(liars) |->
                      [text |-> room.lies[liars[i]], isTrue |-> FALSE, author |-> liars[i]]]
      used == {normalize(base[i].text) : i \in 1..Len(base)}
      needed == Max2(0, MinAnswers - (1 + Len(liars)))
  IN base \o AddDecoys(room.currentQuestion.decoys, used, needed)

\* ids of the answers a player is shown: all but the ones the player authored
MyAnswers(room, name) ==
  LET n == Len(room.answerList)
  IN SelectNames([i \in 1..n |-> i - 1],
                 {i - 1 : i \in {k \in 1..n : room.answerList[k].author # name}})

AllAnswers(room) == [i \in 1..Len(room.answerList) |-> i - 1]

RECURSIVE sendChoices(_, _)
sendChoices(ctx, ps) ==
  IF ps = <<>> THEN ctx
  ELSE sendChoices(
         sendTo(ctx, ctx.room.players[Head(ps)].ws,
                Msg("your-choices", MyAnswers(ctx.room, Head(ps)), {}, "")),
         Tail(ps))

startVoting(ctx, shuffled) ==
  LET c1 == [clearTimer(ctx) EXCEPT !.room.phase = "vote",
                                    !.room.answerList = shuffled,
                                    !.room.votes = EmptyMap,
                                    !.room.builds = @ + 1]
      c2 == broadcast(c1, Msg("vote-phase", AllAnswers(c1.room), {}, ""))
  IN setTimeout(sendChoices(c2, PlayerSeq(c2.room)), "doReveal", T_VOTE)

\* checkAllVotesIn that schedules the reveal without cancelling the vote deadline
checkAllVotesIn_keepDeadline(ctx) ==
  LET active == ActivePlayers(ctx.room)
  IN IF active # {} /\ \A n \in active : n \in DOMAIN ctx.room.votes
     THEN setTimeout(ctx, "doReveal", T_VOTE_ALL)
     ELSE ctx

checkAllVotesIn(ctx) ==
  LET active == ActivePlayers(ctx.room)
  IN IF active # {} /\ \A n \in active : n \in DOMAIN ctx.room.votes
     THEN setTimeout(clearTimer(ctx), "doReveal", T_VOTE_ALL)
     ELSE ctx

\* picks[answerId]: the players whose vote is answerId
Picks(room, aid) == {n \in DOMAIN room.votes : room.votes[n] = aid}

\* what the slot aid adds to scoreChanges[name]
SlotChange(room, aid, name) ==
  LET answer == room.answerList[aid + 1]
      voters == Picks(room, aid)
      mult == roundMultiplier(room)
  IN IF voters = {} THEN 0
     ELSE IF answer.isTrue
          THEN (IF name \in voters THEN TruthPoints * mult ELSE 0)
     ELSE IF answer.author = GAME
          THEN (IF name \in voters THEN 0 - FoolPoints * mult ELSE 0)
     ELSE IF answer.author # NoName /\ answer.author = name
          THEN FoolPoints * mult * Cardinality(voters)
     ELSE 0

RECURSIVE SumSlots(_, _, _)
SumSlots(room, n, name) ==
  IF n = 0 THEN 0 ELSE SlotChange(room, n - 1, name) + SumSlots(room, n - 1, name)

scoreChanges(room) ==
  [name \in DOMAIN room.players |-> SumSlots(room, Len(room.answerList), name)]

doReveal(ctx) ==
  LET c1 == [clearTimer(ctx) EXCEPT !.room.phase = "reveal"]
      ch == scoreChanges(c1.room)
      c2 == [c1 EXCEPT !.room.players =
                         [n \in DOMAIN @ |-> [@[n] EXCEPT !.score = @ + ch[n]]],
                       !.room.reveals = @ + 1]
      revealTime == Max2(T_REVEAL_PER, Len(c2.room.answerList) * T_REVEAL_PER)
  IN setTimeout(broadcast(c2, Plain("reveal")), "toScoreboard", revealTime)

toScoreboard(ctx) ==
  LET c1 == [ctx EXCEPT !.room.phase = "scoreboard"]
  IN setTimeout(broadcast(c1, Plain("scoreboard")), "nextQuestion", T_SCOREBOARD)

\* syncPlayerToCurrentPhase that resends the host's full list in the vote phase
syncPlayerToCurrentPhase_fullList(ctx, name) ==
  LET room == ctx.room
      ws == IF name \in DOMAIN room.players THEN room.players[name].ws ELSE NoWs
  IN IF ws = NoWs THEN ctx
     ELSE CASE room.phase = "category-select" ->
                 sendTo(ctx, ws, Msg("category-select", <<>>, room.categories, ""))
            [] room.phase \in {"show-question", "lie"} ->
                 sendTo(ctx, ws, Plain("lie-phase"))
            [] room.phase = "vote" ->
                 sendTo(ctx, ws, Msg("your-choices", AllAnswers(room), {}, ""))
            [] room.phase = "reveal" -> sendTo(ctx, ws, Plain("wait"))
            [] room.phase = "scoreboard" -> sendTo(ctx, ws, Plain("scoreboard"))
            [] OTHER -> ctx

syncPlayerToCurrentPhase(ctx, name) ==
  LET room == ctx.room
      ws == IF name \in DOMAIN room.players THEN room.players[name].ws ELSE NoWs
  IN IF ws = NoWs THEN ctx
     ELSE CASE room.phase = "category-select" ->
                 sendTo(ctx, ws, Msg("category-select", <<>>, room.categories, ""))
            [] room.phase \in {"show-question", "lie"} ->
                 sendTo(ctx, ws, Plain("lie-phase"))
            [] room.phase = "vote" ->
                 sendTo(ctx, ws, Msg("your-choices", MyAnswers(room, name), {}, ""))
            [] room.phase = "reveal" -> sendTo(ctx, ws, Plain("wait"))
            [] room.phase = "scoreboard" -> sendTo(ctx, ws, Plain("scoreboard"))
            [] OTHER -> ctx

(***************************************************************************)
(* State after construction, and the plumbing of the handlers.  A handler  *)
(* is an operator from the current state and its input to a result: the    *)
(* new sessions, rooms and pending timers, and the messages it sent.       *)
(***************************************************************************)
\* hosted: the rooms the connection created or host-joined (history only)
FreshConn ==
  [st |-> "fresh", myRoom |-> NoRoom, myName |-> NoName, isHost |-> FALSE, hosted |-> {}]

InitWith(banks) ==
  /\ questions \in banks
  /\ conns = [c \in Conns |-> FreshConn]
  /\ rooms = EmptyMap
  /\ pending = [code \in Codes |-> {}]

\* asked, clean, games, resets: history of the room, read by no handler;
\* builds, reveals: the runs of startVoting and of doReveal since
\* currentQuestion was set, read by no handler;
\* since: the ms elapsed since the room entered its phase, read by no handler
NewRoom(ws) ==
  [hostWs |-> ws, players |-> EmptyMap, state |-> "lobby", phase |-> "lobby",
   round |-> 0, questionNum |-> 0, timer |-> NoTimer, questionPool |-> <<>>,
   currentQuestion |-> NoQuestion, lies |-> EmptyMap, votes |-> EmptyMap,
   answerList |-> <<>>, categories |-> {}, categoryVotes |-> <<>>,
   asked |-> 0, clean |-> TRUE, games |-> 0, resets |-> 0,
   builds |-> 0, reveals |-> 0,
   since |-> 0]

getRoom(code) == code \in DOMAIN rooms

Ctx(code) == [room |-> rooms[code], tm |-> pending[code], out |-> <<>>]

\* the result of a handler that returns after sending out
Reply(out) == [conns |-> conns, rooms |-> rooms, pending |-> pending, out |-> out]

Ignored == Reply(<<>>)

ErrorTo(c, type) == Reply(<<[Plain(type) EXCEPT !.to = c]>>)

\* the result of a handler that worked on the room code; when the handler
\* changed the phase, the elapsed time and the due times count from now
Done(cs, code, ctx) ==
  LET moved == ctx.room.phase # rooms[code].phase
      now == ctx.room.since
  IN [conns |-> cs,
      rooms |-> Put(rooms, code, IF moved THEN [ctx.room EXCEPT !.since = 0] ELSE ctx.room),
      pending |-> [pending EXCEPT ![code] =
                     IF moved THEN {[t EXCEPT !.at = @ - now] : t \in ctx.tm} ELSE ctx.tm],
      out |-> ctx.out]

Apply(res) ==
  /\ conns' = res.conns
  /\ rooms' = res.rooms
  /\ pending' = res.pending
  /\ UNCHANGED questions

Open(c) == conns[c].st = "open"

(***************************************************************************)
(* Connections.                                                            *)
(***************************************************************************)
Connect(c) ==
  /\ conns[c].st = "fresh"
  /\ \A d \in Conns : d < c => conns[d].st # "fresh"
  /\ conns' = [conns EXCEPT ![c].st = "open"]
  /\ UNCHANGED <<questions, rooms, pending>>

\* code: the code genCode draws, one that no live room has
create_room(c, code) ==
  [conns |-> [conns EXCEPT ![c].myRoom = code, ![c].isHost = TRUE,
                           ![c].hosted = @ \cup {code}],
   rooms |-> Put(rooms, code, NewRoom(c)),
   pending |-> pending,
   out |-> <<[Plain("room-created") EXCEPT !.to = c]>>]

CreateRoom(c, code) ==
  /\ Open(c)
  /\ code \notin DOMAIN rooms
  /\ Apply(create_room(c, code))

CleanName(rawName) == SubSeq(Trim(rawName), 1, Min2(MaxNameLen, Len(Trim(rawName))))

\* join_room that binds the session to the room before it validates the name
join_room_bindFirst(c, code, rawName) ==
  LET name == CleanName(rawName)
  IN IF ~getRoom(code) THEN ErrorTo(c, "error:Room not found")
     ELSE LET room == rooms[code]
              known == name \in DOMAIN room.players
              bound == [conns EXCEPT ![c].myRoom = code]
          IN IF room.state # "lobby" /\ ~known
               THEN [ErrorTo(c, "error:Game already in progress") EXCEPT !.conns = bound]
             ELSE IF Cardinality(DOMAIN room.players) >= RoomCap /\ ~known
               THEN [ErrorTo(c, "error:Room is full") EXCEPT !.conns = bound]
             ELSE IF name = <<>>
               THEN [ErrorTo(c, "error:Name required") EXCEPT !.conns = bound]
             ELSE IF known /\ isOpen(room.players[name].ws) /\ room.players[name].ws # c
               THEN [ErrorTo(c, "error:Name already taken") EXCEPT !.conns = bound]
             ELSE LET p == IF known THEN [room.players[name] EXCEPT !.ws = c]
                           ELSE [score |-> 0, ws |-> c]
                      c0 == [Ctx(code) EXCEPT !.room.players = Put(@, name, p)]
                      c1 == sendTo(c0, c, Msg("joined", <<>>, {}, room.phase))
                      c2 == broadcast(c1, Plain("player-list"))
                      c3 == IF room.state = "playing"
                            THEN syncPlayerToCurrentPhase(c2, name) ELSE c2
                  IN Done([conns EXCEPT ![c].myRoom = code, ![c].myName = name], code, c3)

join_room(c, code, rawName) ==
  LET name == CleanName(rawName)
  IN IF ~getRoom(code) THEN ErrorTo(c, "error:Room not found")
     ELSE LET room == rooms[code]
              known == name \in DOMAIN room.players
          IN IF room.state # "lobby" /\ ~known
               THEN ErrorTo(c, "error:Game already in progress")
             ELSE IF Cardinality(DOMAIN room.players) >= RoomCap /\ ~known
               THEN ErrorTo(c, "error:Room is full")
             ELSE IF name = <<>> THEN ErrorTo(c, "error:Name required")
             ELSE IF known /\ isOpen(room.players[name].ws) /\ room.players[name].ws # c
               THEN ErrorTo(c, "error:Name already taken")
             ELSE LET p == IF known THEN [room.players[name] EXCEPT !.ws = c]
                           ELSE [score |-> 0, ws |-> c]
                      c0 == [Ctx(code) EXCEPT !.room.players = Put(@, name, p)]
                      c1 == sendTo(c0, c, Msg("joined", <<>>, {}, room.phase))
                      c2 == broadcast(c1, Plain("player-list"))
                      c3 == IF room.state = "playing"
                            THEN syncPlayerToCurrentPhase(c2, name) ELSE c2
                  IN Done([conns EXCEPT ![c].myRoom = code, ![c].myName = name], code, c3)

\* the model admits at most maxPlayers players to a room
JoinRoom(c, code, rawName, maxPlayers) ==
  /\ Open(c)
  /\ LET res == join_room(c, code, rawName)
     IN /\ \A k \in DOMAIN res.rooms : Cardinality(DOMAIN res.rooms[k].players) <= maxPlayers
        /\ Apply(res)

host_join(c, code) ==
  IF ~getRoom(code) THEN ErrorTo(c, "error:Room not found")
  ELSE Done([conns EXCEPT ![c].myRoom = code, ![c].isHost = TRUE,
                          ![c].hosted = @ \cup {code}],
            code,
            sendTo([Ctx(code) EXCEPT !.room.hostWs = c], c,
                   Msg("host-joined", <<>>, {}, rooms[code].phase)))

HostJoin(c, code) ==
  /\ Open(c)
  /\ Apply(host_join(c, code))

\* close that removes the player of the session from the room
close_dropPlayer(c) ==
  LET code == conns[c].myRoom
      name == conns[c].myName
      cs == [conns EXCEPT ![c] = [FreshConn EXCEPT !.st = "closed"]]
  IN IF code # NoRoom /\ name # NoName /\ getRoom(code)
        /\ name \in DOMAIN rooms[code].players
     THEN LET left == [n \in DOMAIN rooms[code].players \ {name} |-> rooms[code].players[n]]
              c1 == broadcast([Ctx(code) EXCEPT !.room.players = left], Plain("player-list"))
          IN Done(cs, code, [c1 EXCEPT !.out = SelectSeq(@, LAMBDA m : m.to # c)])
     ELSE [Ignored EXCEPT !.conns = cs]

\* the socket is closed when the handler runs, and its session is never read again
close(c) ==
  LET code == conns[c].myRoom
      name == conns[c].myName
      cs == [conns EXCEPT ![c] = [FreshConn EXCEPT !.st = "closed"]]
  IN IF code # NoRoom /\ name # NoName /\ getRoom(code)
        /\ name \in DOMAIN rooms[code].players
     THEN LET c1 == broadcast([Ctx(code) EXCEPT !.room.players[name].ws = NoWs],
                              Plain("player-list"))
          IN Done(cs, code, [c1 EXCEPT !.out = SelectSeq(@, LAMBDA m : m.to # c)])
     ELSE [Ignored EXCEPT !.conns = cs]

\* how = "closing": the socket leaves the open state and its close event is
\* still to come; how = "event": the close event, of an open or closing socket
Close(c, how) ==
  IF how = "closing"
  THEN /\ Open(c)
       /\ conns' = [conns EXCEPT ![c].st = "closing"]
       /\ UNCHANGED <<questions, rooms, pending>>
  ELSE /\ conns[c].st \in {"open", "closing"}
       /\ Apply(close(c))

(***************************************************************************)
(* Gameplay messages.                                                      *)
(***************************************************************************)
start_game(c, pool, cats) ==
  IF ~conns[c].isHost \/ conns[c].myRoom = NoRoom THEN Ignored
  ELSE IF ~getRoom(conns[c].myRoom) \/ rooms[conns[c].myRoom].state # "lobby" THEN Ignored
  ELSE IF Cardinality(DOMAIN rooms[conns[c].myRoom].players) < MinPlayers
    THEN ErrorTo(c, "error:Need at least 2 players")
  ELSE Done(conns, conns[c].myRoom, startGame(Ctx(conns[c].myRoom), pool, cats))

\* the model starts at most maxGames games in a room
StartGame(c, maxGames) ==
  /\ Open(c)
  /\ \E pool \in pickQuestions(questions) : \E cats \in getCategories(pool) :
       LET res == start_game(c, pool, cats)
       IN /\ \A k \in DOMAIN res.rooms : res.rooms[k].games <= maxGames
          /\ Apply(res)

\* room.categoryVotes[name] = cat, keeping the position of an existing key
SetVote(cv, name, cat) ==
  IF \E i \in 1..Len(cv) : cv[i][1] = name
  THEN [i \in 1..Len(cv) |-> IF cv[i][1] = name THEN <<name, cat>> ELSE cv[i]]
  ELSE Append(cv, <<name, cat>>)

CategoryVoters(cv) == {cv[i][1] : i \in 1..Len(cv)}

vote_category(c, cat) ==
  LET code == conns[c].myRoom
      name == conns[c].myName
  IN IF code = NoRoom \/ name = NoName THEN Ignored
     ELSE IF ~getRoom(code) \/ rooms[code].phase # "category-select" THEN Ignored
     ELSE IF cat \notin rooms[code].categories THEN Ignored
     ELSE LET c1 == [Ctx(code) EXCEPT !.room.categoryVotes = SetVote(@, name, cat)]
              active == ActivePlayers(c1.room)
          IN Done(conns, code,
                  IF active # {} /\ active \subseteq CategoryVoters(c1.room.categoryVotes)
                  THEN setTimeout(clearTimer(c1), "selectCategory", T_CATEGORY_ALL)
                  ELSE c1)

VoteCategory(c, cat) ==
  /\ Open(c)
  /\ Apply(vote_category(c, cat))

\* submit-lie that does not look at the phase of the room
submit_lie_anyPhase(c, rawLie) ==
  LET code == conns[c].myRoom
      name == conns[c].myName
      lie == Trim(rawLie)
  IN IF code = NoRoom \/ name = NoName THEN Ignored
     ELSE IF ~getRoom(code) THEN Ignored
     ELSE IF lie = <<>> \/ Len(lie) > MaxLieLen THEN Ignored
     ELSE IF isTooSimilar(lie, rooms[code].currentQuestion.answer,
                          rooms[code].currentQuestion.alts)
       THEN ErrorTo(c, "lie-rejected")
     ELSE LET c1 == [Ctx(code) EXCEPT !.room.lies = Put(@, name, lie)]
              c2 == sendTo(c1, c, Plain("lie-accepted"))
              c3 == sendTo(c2, c2.room.hostWs, Plain("lie-count"))
          IN Done(conns, code, checkAllLiesIn(c3))

submit_lie(c, rawLie) ==
  LET code == conns[c].myRoom
      name == conns[c].myName
      lie == Trim(rawLie)
  IN IF code = NoRoom \/ name = NoName THEN Ignored
     ELSE IF ~getRoom(code) \/ rooms[code].phase # "lie" THEN Ignored
     ELSE IF lie = <<>> \/ Len(lie) > MaxLieLen THEN Ignored
     ELSE IF isTooSimilar(lie, rooms[code].currentQuestion.answer,
                          rooms[code].currentQuestion.alts)
       THEN ErrorTo(c, "lie-rejected")
     ELSE LET c1 == [Ctx(code) EXCEPT !.room.lies = Put(@, name, lie)]
              c2 == sendTo(c1, c, Plain("lie-accepted"))
              c3 == sendTo(c2, c2.room.hostWs, Plain("lie-count"))
          IN Done(conns, code, checkAllLiesIn(c3))

SubmitLie(c, rawLie) ==
  /\ Open(c)
  /\ Apply(submit_lie(c, rawLie))

\* parseInt(msg.answerId): not a number, or an integer
Parsed(v) == [nan |-> FALSE, val |-> v]

NotANumber == [nan |-> TRUE, val |-> 0]

\* submit_vote without the check of the slot's author
submit_vote_anySlot(c, aid) ==
  LET code == conns[c].myRoom
      name == conns[c].myName
  IN IF code = NoRoom \/ name = NoName THEN Ignored
     ELSE IF ~getRoom(code) \/ rooms[code].phase # "vote" THEN Ignored
     ELSE IF aid.nan \/ aid.val < 0 \/ aid.val >= Len(rooms[code].answerList) THEN Ignored
     ELSE LET c1 == [Ctx(code) EXCEPT !.room.votes = Put(@, name, aid.val)]
              c2 == sendTo(c1, c, Plain("vote-accepted"))
              c3 == sendTo(c2, c2.room.hostWs, Plain("vote-count"))
          IN Done(conns, code, checkAllVotesIn(c3))

submit_vote(c, aid) ==
  LET code == conns[c].myRoom
      name == conns[c].myName
  IN IF code = NoRoom \/ name = NoName THEN Ignored
     ELSE IF ~getRoom(code) \/ rooms[code].phase # "vote" THEN Ignored
     ELSE IF aid.nan \/ aid.val < 0 \/ aid.val >= Len(rooms[code].answerList) THEN Ignored
     ELSE IF rooms[code].answerList[aid.val + 1].author = name THEN Ignored
     ELSE LET c1 == [Ctx(code) EXCEPT !.room.votes = Put(@, name, aid.val)]
              c2 == sendTo(c1, c, Plain("vote-accepted"))
              c3 == sendTo(c2, c2.room.hostWs, Plain("vote-count"))
          IN Done(conns, code, checkAllVotesIn(c3))

SubmitVote(c, aid) ==
  /\ Open(c)
  /\ Apply(submit_vote(c, aid))

play_again(c) ==
  IF ~conns[c].isHost \/ conns[c].myRoom = NoRoom THEN Ignored
  ELSE IF ~getRoom(conns[c].myRoom) THEN Ignored
  ELSE LET c1 == [Ctx(conns[c].myRoom) EXCEPT
                    !.room.state = "lobby",
                    !.room.phase = "lobby",
                    !.room.round = 0,
                    !.room.questionNum = 0,
                    !.room.players = [n \in DOMAIN @ |-> [@[n] EXCEPT !.score = 0]],
                    !.room.clean = FALSE,
                    !.room.resets = @ + 1]
       IN Done(conns, conns[c].myRoom, broadcast(c1, Plain("back-to-lobby")))

\* the model accepts at most maxResets play-again messages in a room
PlayAgain(c, maxResets) ==
  /\ Open(c)
  /\ LET res == play_again(c)
     IN /\ \A k \in DOMAIN res.rooms : res.rooms[k].resets <= maxResets
        /\ Apply(res)

(***************************************************************************)
(* The periodic sweep and the timer callbacks.                             *)
(***************************************************************************)
Abandoned(room) ==
  /\ \A n \in DOMAIN room.players : room.players[n].ws = NoWs
  /\ ~isOpen(room.hostWs)

\* sweep that deletes the abandoned rooms without cancelling their timers
sweep_keepTimers ==
  LET gone == {code \in DOMAIN rooms : Abandoned(rooms[code])}
  IN [conns |-> [c \in Conns |-> [conns[c] EXCEPT !.hosted = @ \ gone]],
      rooms |-> [code \in DOMAIN rooms \ gone |-> rooms[code]],
      pending |-> pending,
      out |-> <<>>]

sweep ==
  LET gone == {code \in DOMAIN rooms : Abandoned(rooms[code])}
  IN [conns |-> [c \in Conns |-> [conns[c] EXCEPT !.hosted = @ \ gone]],
      rooms |-> [code \in DOMAIN rooms \ gone |-> rooms[code]],
      pending |-> [code \in Codes |->
                     IF code \in gone THEN clearTimer(Ctx(code)).tm ELSE pending[code]],
      out |-> <<>>]

Sweep == Apply(sweep)

\* the timer t of a live room fires, when it is due: it is no longer pending,
\* its callback runs
Fired(code, t) == [Ctx(code) EXCEPT !.tm = @ \ {t}, !.room.since = t.at]

\* ms pass in the room code, and no timer of the room is due yet
Wait(code, ms) ==
  /\ getRoom(code)
  /\ pending[code] # {}
  /\ \A t \in pending[code] : rooms[code].since + ms < t.at
  /\ rooms' = [rooms EXCEPT ![code].since = @ + ms]
  /\ UNCHANGED <<questions, conns, pending>>

Due(code, cb) == {t \in pending[code] : t.cb = cb /\ getRoom(code)}

RandomCategory(room) == IF room.categories = {} THEN {"none"} ELSE room.categories

FireSelectCategory(code) ==
  \E t \in Due(code, "selectCategory") : \E rnd \in RandomCategory(rooms[code]) :
    Apply(Done(conns, code, selectCategory(Fired(code, t), rnd)))

FireStartLiePhase(code) ==
  \E t \in Due(code, "startLiePhase") :
    Apply(Done(conns, code, startLiePhase(Fired(code, t))))

FireStartVoting(code) ==
  \E t \in Due(code, "startVoting") : \E shuffled \in Shuffles(BuildAnswers(rooms[code])) :
    Apply(Done(conns, code, startVoting(Fired(code, t), shuffled)))

FireDoReveal(code) ==
  \E t \in Due(code, "doReveal") :
    Apply(Done(conns, code, doReveal(Fired(code, t))))

FireToScoreboard(code) ==
  \E t \in Due(code, "toScoreboard") :
    Apply(Done(conns, code, toScoreboard(Fired(code, t))))

FireNextQuestion(code) ==
  \E t \in Due(code, "nextQuestion") : \E cats \in getCategories(rooms[code].questionPool) :
    Apply(Done(conns, code, nextQuestion(Fired(code, t), cats)))

\* every handler and callback, with the inputs drawn from the sets of I:
\* the connections that send host messages, those that send player messages
\* and those that drop, the ways they drop, the room codes, the codes that players join, and the
\* names, categories, lies and answer ids that are sent, the numbers of
\* games, resets and players that the model admits in a room, and the times
\* that pass between two events
Step(I) ==
  \/ \E c \in I.hosts \cup I.phones : Connect(c)
  \/ \E c \in I.hosts, code \in I.codes : CreateRoom(c, code)
  \/ \E c \in I.phones, code \in I.joins \cup {NoRoom}, name \in I.names :
       JoinRoom(c, code, name, I.players)
  \/ \E c \in I.hosts, code \in I.codes \cup {NoRoom} : HostJoin(c, code)
  \/ \E c \in I.closers, how \in I.closing : Close(c, how)
  \/ \E c \in I.hosts : StartGame(c, I.games)
  \/ \E c \in I.phones, cat \in I.cats : VoteCategory(c, cat)
  \/ \E c \in I.phones, lie \in I.lies : SubmitLie(c, lie)
  \/ \E c \in I.phones, aid \in I.votes : SubmitVote(c, aid)
  \/ \E c \in I.hosts : PlayAgain(c, I.resets)
  \/ Sweep
  \/ \E code \in I.codes : FireSelectCategory(code)
  \/ \E code \in I.codes : FireStartLiePhase(code)
  \/ \E code \in I.codes : FireStartVoting(code)
  \/ \E code \in I.codes : FireDoReveal(code)
  \/ \E code \in I.codes : FireToScoreboard(code)
  \/ \E code \in I.codes : FireNextQuestion(code)
  \/ \E code \in I.codes, ms \in I.waits : Wait(code, ms)

(***************************************************************************)
(* Specifications.  Connection 1 is the host display and the others are    *)
(* phones, unless said otherwise.                                          *)
(*   Spec      one room, one game on the question with a decoy: two names, *)
(*             one of them the decoy author's, accepted and rejected lies, *)
(*             every answer id; the host display may drop.                 *)
(*   SpecChurn one room, the question without decoy: every connection may  *)
(*             drop, names rejoin, the host resets the room and starts     *)
(*             another game.                                               *)
(*   SpecRooms two rooms: the first connections host, the first and the    *)
(*             last send player messages to the last room; the game runs   *)
(*             on its timers alone, and the last connection may drop, its  *)
(*             close event coming at once or later.                        *)
(*   SpecFull  one room and one phone that joins under name after name     *)
(*             until the room is full; the game runs on its timers alone,  *)
(*             on a bank of one question or of none.                       *)
(*   SpecCategories  one room, one game on two questions of two categories: *)
(*             the players vote for categories and send nothing else.      *)
(*   SpecSwept one room whose game runs on its timers alone: the phones    *)
(*             join under one name or two, every connection may drop, and  *)
(*             the sweep runs again and again.                             *)
(*   SpecTimed one room, one game on one question, in which time passes    *)
(*             between the messages of the players.                        *)
(*   SpecLong  one room, one game on a bank of seven or more questions,    *)
(*             with lies and without votes; the host display may drop.     *)
(***************************************************************************)
VoteInputs == {NotANumber} \cup {Parsed(v) : v \in (0 - 1)..MaxAnswerInput}

Bank(n) == [i \in 1..n |-> Q1]

\* the questions of a whole game
GameLength == 3 + 3 + 1

GameInputs ==
  [hosts |-> {1}, phones |-> 2..MaxConns, closers |-> {1}, codes |-> {1}, joins |-> {1},
   names |-> {NameA, GAME, <<>>, <<" ", "A", " ">>}, cats |-> {"c2", "zz"},
   lies |-> {T_dog, T_owl, T_cat, <<>>}, votes |-> VoteInputs, games |-> 1, resets |-> 0,
   players |-> MaxPlayers, waits |-> {0}, closing |-> {"event"}]

ChurnInputs ==
  [hosts |-> {1}, phones |-> 2..MaxConns, closers |-> Conns, codes |-> {1}, joins |-> {1},
   names |-> {NameA, NameC}, cats |-> {"c1"}, lies |-> {T_dog},
   votes |-> {Parsed(0)}, games |-> MaxGames, resets |-> MaxResets,
   players |-> MaxPlayers, waits |-> {0}, closing |-> {"event"}]

RoomsInputs ==
  [hosts |-> 1..MaxRooms, phones |-> {1, MaxConns}, closers |-> {MaxConns}, codes |-> Codes,
   joins |-> {MaxRooms}, names |-> {NameA, NameC}, cats |-> {"zz"}, lies |-> {<<>>},
   votes |-> {NotANumber}, games |-> 1, resets |-> MaxResets,
   players |-> MaxPlayers, waits |-> {0}, closing |-> {"closing", "event"}]

LongInputs ==
  [hosts |-> {1}, phones |-> 2..MaxConns, closers |-> {1}, codes |-> {1}, joins |-> {1},
   names |-> {NameA, NameC}, cats |-> {"zz"}, lies |-> {T_dog},
   votes |-> {NotANumber}, games |-> 1, resets |-> 0,
   players |-> MaxPlayers, waits |-> {0}, closing |-> {"event"}]

FullInputs ==
  [hosts |-> {1}, phones |-> {2}, closers |-> {1}, codes |-> {1}, joins |-> {1},
   names |-> {NameA, NameC, <<>>} \cup Range(Guests), cats |-> {"zz"}, lies |-> {<<>>},
   votes |-> {NotANumber}, games |-> 1, resets |-> 0,
   players |-> RoomCap, waits |-> {0}, closing |-> {"event"}]

\* a time that passes between two events: shortly less than the category
\* deadline
LateWait == T_CATEGORY - 1

TimedInputs ==
  [hosts |-> {1}, phones |-> 2..MaxConns, closers |-> {1}, codes |-> {1}, joins |-> {1},
   names |-> {NameA, NameC}, cats |-> {"c1"}, lies |-> {T_dog},
   votes |-> {Parsed(0)}, games |-> 1, resets |-> 0,
   players |-> MaxPlayers, waits |-> {LateWait}, closing |-> {"event"}]

CategoryInputs ==
  [hosts |-> {1}, phones |-> 2..MaxConns, closers |-> {1}, codes |-> {1}, joins |-> {1},
   names |-> {NameA, NameC}, cats |-> {"c1", "c2", "zz"}, lies |-> {<<>>},
   votes |-> {NotANumber}, games |-> 1, resets |-> 0,
   players |-> MaxPlayers, waits |-> {0}, closing |-> {"event"}]

SweepInputs ==
  [hosts |-> {1}, phones |-> 2..MaxConns, closers |-> Conns, codes |-> {1}, joins |-> {1},
   names |-> {NameA, NameC}, cats |-> {"zz"}, lies |-> {<<>>},
   votes |-> {NotANumber}, games |-> 1, resets |-> 0,
   players |-> MaxPlayers, waits |-> {0}, closing |-> {"event"}]

Init == InitWith({<<Q2>>})

Next == Step(GameInputs)

Spec == Init /\ [][Next]_vars

SpecChurn == InitWith({<<Q1>>}) /\ [][Step(ChurnInputs)]_vars

SpecRooms == InitWith({<<Q1>>}) /\ [][Step(RoomsInputs)]_vars

SpecFull == InitWith({<<>>, <<Q1>>}) /\ [][Step(FullInputs)]_vars

SpecCategories == InitWith({<<Q1, Q3>>}) /\ [][Step(CategoryInputs)]_vars

\* the sweep runs every 5 minutes for as long as the process lives
SpecSwept == InitWith({<<Q1>>}) /\ [][Step(SweepInputs)]_vars /\ WF_vars(Sweep)

SpecTimed == InitWith({<<Q1>>}) /\ [][Step(TimedInputs)]_vars

SpecLong == InitWith({Bank(GameLength), Bank(GameLength + ExtraQuestions)}) /\ [][Step(LongInputs)]_vars

(***************************************************************************)
(* Timers.                                                                 *)
(***************************************************************************)
\* C1: in every reachable state each room has at most one pending timer,
\* whatever the interleaving of messages, drops, timer firings and sweeps.
OneTimerPerRoom == \A code \in Codes : Cardinality(pending[code]) <= 1

\* a room that was reset and started again has its one timer pending
OneTimerAfterRestart ==
  \E code \in DOMAIN rooms : rooms[code].games = 2 /\ Cardinality(pending[code]) = 1

(***************************************************************************)
(* Phases.                                                                 *)
(***************************************************************************)
PhaseEdges ==
  { <<"lobby", "category-select">>, <<"category-select", "show-question">>,
    <<"show-question", "lie">>, <<"lie", "vote">>, <<"vote", "reveal">>,
    <<"reveal", "scoreboard">>, <<"scoreboard", "category-select">>,
    <<"scoreboard", "game-over">> }

\* the step is a start-game of a connection that hosts the room code
ByStartGame(code) ==
  \E c \in Conns :
    /\ Open(c) /\ conns[c].isHost /\ conns[c].myRoom = code
    /\ \E pool \in pickQuestions(questions) : \E cats \in getCategories(pool) :
         rooms' = start_game(c, pool, cats).rooms

\* the step is a play-again of a connection that hosts the room code
ByPlayAgain(code) ==
  \E c \in Conns :
    /\ Open(c) /\ conns[c].isHost /\ conns[c].myRoom = code
    /\ rooms' = play_again(c).rooms

\* C2: a room's phase changes only along lobby -> category-select ->
\* show-question -> lie -> vote -> reveal -> scoreboard -> (category-select
\* or game-over), or back to lobby by play-again; a room leaves lobby only
\* by a host's start-game and leaves game-over only by play-again.
PhaseOrder ==
  [][\A code \in DOMAIN rooms \cap DOMAIN rooms' :
       LET p == rooms[code].phase
           q == rooms'[code].phase
       IN p # q =>
            \/ q = "lobby" /\ ByPlayAgain(code)
            \/ /\ <<p, q>> \in PhaseEdges
               /\ p = "lobby" => ByStartGame(code)]_vars

\* a room that play-again sent back to its lobby while a phase timer was
\* pending, and that the timer has since moved on
MovedOnInLobby ==
  \E code \in DOMAIN rooms :
    rooms[code].state = "lobby" /\ rooms[code].phase \notin {"lobby", "game-over"}

(***************************************************************************)
(* The sweep.                                                              *)
(***************************************************************************)
HostGone(room) == room.hostWs = NoWs \/ conns[room.hostWs].st # "open"

AllAbsent(room) == \A n \in DOMAIN room.players : room.players[n].ws = NoWs

\* C10: a room is removed only when its host channel is absent or closed and
\* every player's channel is absent, and a removed room has no pending timer:
\* no callback of a removed room can run.
SweepCancelsThenDeletes ==
  [][\A code \in Codes :
       code \notin DOMAIN rooms' =>
         /\ pending'[code] = {}
         /\ code \in DOMAIN rooms => HostGone(rooms[code]) /\ AllAbsent(rooms[code])]_vars

\* an abandoned room with a timer pending, which the sweep removes and cancels
SweepOfTimedRoom ==
  \E code \in DOMAIN rooms :
    /\ pending[code] # {}
    /\ code \notin DOMAIN sweep.rooms
    /\ sweep.pending[code] = {}

(***************************************************************************)
(* Rejoining.                                                              *)
(***************************************************************************)
ResyncType(phase) ==
  CASE phase = "category-select" -> "category-select"
    [] phase \in {"show-question", "lie"} -> "lie-phase"
    [] phase = "vote" -> "your-choices"
    [] phase = "reveal" -> "wait"
    [] phase = "scoreboard" -> "scoreboard"
    [] OTHER -> "none"

\* the connection c may rejoin the playing room code as the existing player
\* name: no other open channel holds the name
MayRejoin(c, code, name) ==
  /\ Open(c)
  /\ code \in DOMAIN rooms
  /\ name \in DOMAIN rooms[code].players
  /\ rooms[code].state = "playing"
  /\ ~(isOpen(rooms[code].players[name].ws) /\ rooms[code].players[name].ws # c)

\* C8: an existing player name that rejoins a room whose game is being
\* played receives, last, the resynchronization of the room's phase: the
\* category options in category-select, the lie prompt in show-question and
\* lie, the answers without the ones it authored in vote, a placeholder in
\* reveal, the rankings in scoreboard.
RejoinResync ==
  \A c \in Conns, code \in Codes, name \in Names :
    MayRejoin(c, code, name) =>
      LET room == rooms[code]
          out == join_room(c, code, name).out
          last == out[Len(out)]
          others == SelectSeq(AllAnswers(room), LAMBDA i : room.answerList[i + 1].author # name)
      IN /\ out # <<>>
         /\ last.to = c
         /\ last.type = ResyncType(room.phase)
         /\ room.phase = "category-select" => last.cats = room.categories
         /\ room.phase = "vote" => last.ids = others

\* the vote phase of a game, a player whose channel is gone and whose lie is
\* on the list, and an open connection that may rejoin under the name
RejoinDuringVote ==
  \E c \in Conns, code \in Codes, name \in Names :
    /\ MayRejoin(c, code, name)
    /\ rooms[code].phase = "vote"
    /\ rooms[code].players[name].ws = NoWs
    /\ \E i \in 1..Len(rooms[code].answerList) : rooms[code].answerList[i].author = name
    /\ join_room(c, code, name).out # <<>>

(***************************************************************************)
(* Votes.                                                                  *)
(***************************************************************************)
\* aid is an index of the answer list of room
InRange(room, aid) == ~aid.nan /\ aid.val >= 0 /\ aid.val < Len(room.answerList)

\* the claim rejects the vote aid of name in room: outside the vote phase, out
\* of range, or on a slot that name authored
MustReject(room, name, aid) ==
  IF room.phase # "vote" THEN TRUE
  ELSE IF ~InRange(room, aid) THEN TRUE
  ELSE room.answerList[aid.val + 1].author = name

\* C3: no stored vote of a player refers to a slot the player authored, every
\* stored vote is an index of the current answer list, and a submit-vote on
\* the voter's own slot, out of range or outside the vote phase leaves the
\* votes unchanged.
VotesValid ==
  /\ \A code \in DOMAIN rooms : \A p \in DOMAIN rooms[code].votes :
        /\ InRange(rooms[code], Parsed(rooms[code].votes[p]))
        /\ rooms[code].answerList[rooms[code].votes[p] + 1].author # p
  /\ \A c \in Conns, aid \in VoteInputs :
        LET code == conns[c].myRoom
        IN (Open(c) /\ code \in DOMAIN rooms
              /\ MustReject(rooms[code], conns[c].myName, aid))
           => submit_vote(c, aid).rooms[code].votes = rooms[code].votes

\* a player has voted with a lie of theirs on the list, and holds a
\* connection whose vote for that lie is rejected
VoteBesideOwnLie ==
  \E code \in DOMAIN rooms, c \in Conns :
    LET room == rooms[code]
        p == conns[c].myName
    IN /\ Open(c) /\ conns[c].myRoom = code
       /\ room.phase = "vote"
       /\ p \in DOMAIN room.votes
       /\ \E i \in 1..Len(room.answerList) :
            room.answerList[i].author = p /\ MustReject(room, p, Parsed(i - 1))

(***************************************************************************)
(* Scoring.                                                                *)
(***************************************************************************)
\* slot i of the list holds the lie that name submitted
AuthoredBy(room, i, name) ==
  /\ ~room.answerList[i].isTrue
  /\ name \in DOMAIN room.lies
  /\ room.answerList[i].author = name
  /\ room.answerList[i].text = room.lies[name]

\* slot i holds a decoy of the question: neither the truth nor a player's lie
MachineDecoy(room, i) ==
  /\ ~room.answerList[i].isTrue
  /\ \A name \in DOMAIN room.lies : ~AuthoredBy(room, i, name)

\* the change of name's score that the claim states for the reveal of room
ClaimedChange(room, name) ==
  LET mult == room.round
      mine == IF name \in DOMAIN room.votes THEN room.votes[name] + 1 ELSE 0
      fooled == {v \in DOMAIN room.votes : AuthoredBy(room, room.votes[v] + 1, name)}
  IN (IF mine # 0 /\ room.answerList[mine].isTrue THEN TruthPoints * mult ELSE 0)
       - (IF mine # 0 /\ MachineDecoy(room, mine) THEN FoolPoints * mult ELSE 0)
       + FoolPoints * mult * Cardinality(fooled)

\* C4: at reveal, in rounds 1 to 3 with mult the round number, each player's
\* score changes by +1000*mult for a vote on the true slot, -500*mult for a
\* vote on a machine decoy, and +500*mult for every vote on a slot the
\* player authored.
ScoreFormula ==
  \A code \in DOMAIN rooms : \A t \in Due(code, "doReveal") :
    rooms[code].round \in 1..3 =>
      LET after == doReveal(Fired(code, t)).room
      IN \A name \in DOMAIN rooms[code].players :
           after.players[name].score - rooms[code].players[name].score
             = ClaimedChange(rooms[code], name)

(***************************************************************************)
(* Views.                                                                  *)
(***************************************************************************)
\* the channel of the player name in room belongs to no other player
OwnChannel(room, name) ==
  \A other \in DOMAIN room.players \ {name} : room.players[other].ws # room.players[name].ws

\* C6: when the vote phase starts, no message sent to the channel of a
\* player lists, among the answers it carries, a slot that holds this
\* player's lie (players sharing one channel are left aside).
NoOwnSlotListed ==
  \A code \in DOMAIN rooms : \A t \in Due(code, "startVoting") :
    \A shuffled \in Shuffles(BuildAnswers(rooms[code])) :
      LET ctx == startVoting(Fired(code, t), shuffled)
      IN \A i \in 1..Len(ctx.out) : \A name \in DOMAIN ctx.room.players :
           (ctx.room.players[name].ws = ctx.out[i].to /\ OwnChannel(ctx.room, name)) =>
             \A k \in Range(ctx.out[i].ids) : ~AuthoredBy(ctx.room, k + 1, name)

(***************************************************************************)
(* Lies.                                                                   *)
(***************************************************************************)
\* C9: once a lie of a player is stored for the question, a further
\* submit-lie of the player in the same lie phase does not change it.
LieKept ==
  \A c \in Conns, lie \in LieInputs :
    LET code == conns[c].myRoom
        name == conns[c].myName
    IN (Open(c) /\ code \in DOMAIN rooms /\ rooms[code].phase = "lie"
          /\ name \in DOMAIN rooms[code].lies)
       => submit_lie(c, lie).rooms[code].lies[name] = rooms[code].lies[name]

(***************************************************************************)
(* Rounds.                                                                 *)
(***************************************************************************)
\* the questions asked before the round begins: 0, 3 and 6
AskedBefore(round) == IF round = 1 THEN 0 ELSE IF round = 2 THEN 3 ELSE 6

\* C5: a game started by start-game on a pool of at least 7 questions, with
\* no play-again, asks 3 questions in round 1, 3 in round 2 and 1 in round 3:
\* while it is played a timer is pending and the questions asked are those
\* of the rounds before plus the ones of this round, and at game-over
\* exactly 7 questions have been asked.
SevenQuestions ==
  \A code \in DOMAIN rooms :
    LET room == rooms[code]
    IN (room.games > 0 /\ room.clean /\ Len(questions) >= GameLength) =>
         /\ room.state \in {"playing", "ended"}
         /\ room.state = "ended" <=> room.phase = "game-over"
         /\ room.phase = "game-over" => room.asked = GameLength
         /\ room.state = "playing" =>
              /\ pending[code] # {}
              /\ room.round \in 1..3
              /\ room.questionNum \in 1..(IF room.round = 3 THEN 1 ELSE 3)
              /\ room.asked = AskedBefore(room.round) + room.questionNum
                                - (IF room.phase = "category-select" THEN 1 ELSE 0)

\* game-over of an uninterrupted game on a bank of eight questions
GameOverAfterSeven ==
  \E code \in DOMAIN rooms :
    /\ rooms[code].phase = "game-over"
    /\ rooms[code].clean
    /\ rooms[code].asked = GameLength
    /\ Len(questions) > GameLength

(***************************************************************************)
(* Host messages.                                                          *)
(***************************************************************************)
\* the fields of the rooms that the program holds: all but the history
Visible(rs) ==
  [code \in DOMAIN rs |->
     [rs[code] EXCEPT !.asked = 0, !.clean = TRUE, !.games = 0, !.resets = 0,
                      !.builds = 0, !.reveals = 0, !.since = 0]]

\* C7: start-game and play-again change a room only when sent by a
\* connection that became the host of that room through create-room or
\* host-join; sent by any other connection they leave every room and its
\* timer unchanged.
HostOnly ==
  \A c \in Conns :
    (Open(c) /\ conns[c].myRoom \notin conns[c].hosted) =>
      /\ Visible(play_again(c).rooms) = Visible(rooms)
      /\ \A pool \in pickQuestions(questions) : \A cats \in getCategories(pool) :
           LET res == start_game(c, pool, cats)
           IN Visible(res.rooms) = Visible(rooms) /\ res.pending = pending

\* a connection that hosts one room and is a player of another, which it
\* never hosted and which has the players to start a game
HostOfAnotherRoom ==
  \E c \in Conns :
    /\ Open(c) /\ conns[c].isHost
    /\ conns[c].myRoom \in DOMAIN rooms
    /\ conns[c].myRoom \notin conns[c].hosted
    /\ conns[c].hosted # {}
    /\ rooms[conns[c].myRoom].state = "lobby"
    /\ Cardinality(DOMAIN rooms[conns[c].myRoom].players) >= MinPlayers

(***************************************************************************)
(* Validation errors.                                                      *)
(***************************************************************************)
NameInputs == Names \cup {<<>>, <<" ">>, <<" ", "A", " ">>}

ErrorTypes ==
  { "error:Room not found", "error:Game already in progress", "error:Room is full",
    "error:Name required", "error:Name already taken", "error:Need at least 2 players" }

\* the join-room of c for code under rawName fails validation: no such room,
\* an empty name, a name held by another open channel, a full room or a
\* game in progress for a new name
JoinFails(c, code, rawName) ==
  LET name == CleanName(rawName)
  IN \/ code \notin DOMAIN rooms
     \/ name = <<>>
     \/ LET room == rooms[code]
            known == name \in DOMAIN room.players
        IN \/ /\ known
              /\ room.players[name].ws \notin {NoWs, c}
              /\ conns[room.players[name].ws].st = "open"
           \/ ~known /\ Cardinality(DOMAIN room.players) >= RoomCap
           \/ ~known /\ room.state # "lobby"

\* the start-game of c is that of the host of a room in its lobby with fewer
\* than 2 players
StartFails(c) ==
  /\ conns[c].isHost
  /\ conns[c].myRoom \in DOMAIN rooms
  /\ rooms[conns[c].myRoom].state = "lobby"
  /\ Cardinality(DOMAIN rooms[conns[c].myRoom].players) < MinPlayers

\* the handler sent one error event, to c, and changed nothing
ErrorOnly(res, c) ==
  /\ Len(res.out) = 1
  /\ res.out[1].to = c
  /\ res.out[1].type \in ErrorTypes
  /\ res.rooms = rooms
  /\ res.conns = conns
  /\ res.pending = pending

\* C11: a join-room that fails validation (room not found, empty name, name
\* held by another open channel, room with 8 players, new name while a game
\* is in progress) and a start-game with fewer than 2 players send one error
\* event, to the sender only, and change neither the rooms nor the sessions.
ErrorsChangeNothing ==
  \A c \in Conns :
    Open(c) =>
      /\ \A code \in Codes \cup {NoRoom}, rawName \in NameInputs :
           JoinFails(c, code, rawName) => ErrorOnly(join_room(c, code, rawName), c)
      /\ StartFails(c) =>
           \A pool \in pickQuestions(questions) : \A cats \in getCategories(pool) :
             ErrorOnly(start_game(c, pool, cats), c)

\* a room in its lobby with 8 players, and an open connection whose join-room
\* under a ninth name is answered with the room-full error
FullRoomRefuses ==
  \E code \in DOMAIN rooms, c \in Conns, name \in Names :
    /\ Open(c)
    /\ name \notin DOMAIN rooms[code].players
    /\ rooms[code].state = "lobby"
    /\ Cardinality(DOMAIN rooms[code].players) = RoomCap
    /\ join_room(c, code, name).out[1].type = "error:Room is full"

(***************************************************************************)
(* Rejected lies.                                                          *)
(***************************************************************************)
\* the connection c is bound to a name and to the live room code, which is
\* in its lie phase
LieSender(c, code) ==
  /\ Open(c)
  /\ conns[c].myRoom = code
  /\ conns[c].myName # NoName
  /\ code \in DOMAIN rooms
  /\ rooms[code].phase = "lie"

\* C12: in any round, a submit-lie during the lie phase whose text is too
\* similar to the truth or to an alternate answer is answered with
\* lie-rejected to the sender and leaves the lies, the phase and the pending
\* timer unchanged.
SimilarLieRejected ==
  \A c \in Conns, code \in Codes, lie \in SimilarInputs \cup {T_dog} :
    (LieSender(c, code)
       /\ isTooSimilar(lie, rooms[code].currentQuestion.answer,
                       rooms[code].currentQuestion.alts))
    => LET res == submit_lie(c, lie)
       IN /\ res.out = <<[Plain("lie-rejected") EXCEPT !.to = c]>>
          /\ res.rooms = rooms
          /\ res.pending = pending

(***************************************************************************)
(* Players.                                                                *)
(***************************************************************************)
\* C13: while a room lives its set of player names never shrinks, whatever
\* the step (a close, a rejoin, play-again, the end of the game); a close
\* keeps every name and score and changes no channel but that of the
\* session's player, which it detaches.
PlayersNeverDeleted ==
  [][/\ \A code \in DOMAIN rooms \cap DOMAIN rooms' :
          DOMAIN rooms[code].players \subseteq DOMAIN rooms'[code].players
     /\ \A c \in Conns :
          Open(c) =>
            LET after == close(c).rooms
            IN /\ DOMAIN after = DOMAIN rooms
               /\ \A code \in DOMAIN rooms :
                    /\ DOMAIN after[code].players = DOMAIN rooms[code].players
                    /\ \A n \in DOMAIN rooms[code].players :
                         /\ after[code].players[n].score = rooms[code].players[n].score
                         /\ after[code].players[n].ws # rooms[code].players[n].ws
                              => /\ after[code].players[n].ws = NoWs
                                 /\ code = conns[c].myRoom
                                 /\ n = conns[c].myName]_vars

\* a player whose channel is detached, in a room that was sent back to its
\* lobby and has ended another game since
PlayerKeptAfterClose ==
  \E code \in DOMAIN rooms, n \in Names :
    /\ n \in DOMAIN rooms[code].players
    /\ rooms[code].players[n].ws = NoWs
    /\ rooms[code].resets > 0
    /\ rooms[code].state = "ended"

(***************************************************************************)
(* The empty pool.                                                         *)
(***************************************************************************)
\* the room of ctx is over and has no timer pending
Ended(ctx) ==
  /\ ctx.room.phase = "game-over"
  /\ ctx.room.state = "ended"
  /\ ctx.tm = {}

\* C14: when a room advances to a next question, from the scoreboard or at
\* the start of the game, and its question pool is empty, it goes to
\* game-over with state ended and no pending timer; no room is in
\* category-select with an empty category list.
EmptyPoolEndsGame ==
  /\ \A code \in DOMAIN rooms :
       rooms[code].phase = "category-select" => rooms[code].categories # {}
  /\ \A code \in DOMAIN rooms : \A t \in Due(code, "nextQuestion") :
       rooms[code].questionPool = <<>> =>
         \A cats \in getCategories(rooms[code].questionPool) :
           Ended(nextQuestion(Fired(code, t), cats))
  /\ \A c \in Conns :
       (Open(c) /\ conns[c].isHost /\ conns[c].myRoom \in DOMAIN rooms
          /\ rooms[conns[c].myRoom].state = "lobby"
          /\ Cardinality(DOMAIN rooms[conns[c].myRoom].players) >= MinPlayers) =>
         \A pool \in pickQuestions(questions) :
           pool = <<>> =>
             \A cats \in getCategories(pool) :
               Ended(startGame(Ctx(conns[c].myRoom), pool, cats))

\* a game that ended after its first question, in round 1, for lack of
\* questions
EndedOnEmptyPool ==
  \E code \in DOMAIN rooms :
    /\ rooms[code].phase = "game-over"
    /\ rooms[code].state = "ended"
    /\ rooms[code].round = 1
    /\ rooms[code].asked = 1
    /\ rooms[code].questionPool = <<>>
    /\ pending[code] = {}

(***************************************************************************)
(* Timers of idle rooms.                                                   *)
(***************************************************************************)
\* C15: every action that changes the phase cancels the room's outstanding
\* timer first, play-again and the end of the game included: a room whose
\* phase is lobby or game-over has no timer pending.
NoTimerWhenIdle ==
  \A code \in DOMAIN rooms :
    rooms[code].phase \in {"lobby", "game-over"} => pending[code] = {}

(***************************************************************************)
(* Deadlines.                                                              *)
(***************************************************************************)
Deadline(phase) ==
  CASE phase = "category-select" -> T_CATEGORY
    [] phase = "lie" -> T_LIE
    [] phase = "vote" -> T_VOTE

\* C16: each input phase (category-select, lie, vote) is left no later than
\* its fixed deadline, counted from the entry into the phase: whatever the
\* players submit, the timer that ends the phase is due by the deadline.
ExitByDeadline ==
  \A code \in DOMAIN rooms :
    rooms[code].phase \in {"category-select", "lie", "vote"} =>
      \A t \in pending[code] : t.at <= Deadline(rooms[code].phase)

(***************************************************************************)
(* The early exit.                                                         *)
(***************************************************************************)
\* at least one player of room is connected, and every connected player is
\* in the domain of done
AllIn(room, done) ==
  ActivePlayers(room) # {} /\ ActivePlayers(room) \subseteq done

\* the one timer pending for the room code runs cb after ms
Scheduled(code, cb, ms) ==
  pending[code] # {} /\ \A t \in pending[code] : t.cb = cb /\ t.ms = ms

\* C17: in the lie phase, and likewise in the vote phase, whenever at least
\* one player is connected and every connected player has a recorded lie
\* (vote), the room is scheduled to leave the phase after the settle delay
\* and not after the full deadline, also when the condition came true by
\* the disconnection of a player who had not submitted.
AllInMeansSettle ==
  \A code \in DOMAIN rooms :
    /\ (rooms[code].phase = "lie" /\ AllIn(rooms[code], DOMAIN rooms[code].lies))
         => Scheduled(code, "startVoting", T_LIE_ALL)
    /\ (rooms[code].phase = "vote" /\ AllIn(rooms[code], DOMAIN rooms[code].votes))
         => Scheduled(code, "doReveal", T_VOTE_ALL)

(***************************************************************************)
(* Channels.                                                               *)
(***************************************************************************)
\* the open connections whose session is bound to the player name of code
BoundTo(code, name) ==
  {c \in Conns : Open(c) /\ conns[c].myRoom = code /\ conns[c].myName = name}

\* the players, of any room, whose channel is the connection c
AttachedTo(c) ==
  UNION {{<<code, name>> : name \in {n \in DOMAIN rooms[code].players :
                                       rooms[code].players[n].ws = c}} :
         code \in DOMAIN rooms}

\* C18: in every reachable state a player's channel is present exactly when
\* an open connection is bound to that player name, and each connection is
\* attached to at most one player: the close event of a connection that a
\* rejoin has replaced does not detach the new channel, and a connection
\* that joins again under another name does not stay attached to the first.
ChannelsFollowSessions ==
  /\ \A code \in DOMAIN rooms : \A name \in DOMAIN rooms[code].players :
       rooms[code].players[name].ws # NoWs <=> BoundTo(code, name) # {}
  /\ \A c \in Conns : Cardinality(AttachedTo(c)) <= 1

(***************************************************************************)
(* Category resolution.                                                    *)
(***************************************************************************)
\* the offered categories of room with the highest vote count: all of them
\* when no vote was cast
TopCategories(room) ==
  {cat \in room.categories :
     \A other \in room.categories :
       Tally(room.categoryVotes, cat) >= Tally(room.categoryVotes, other)}

\* the categories that the resolution of the pending vote of code can select,
\* over the random draws
Outcomes(code) ==
  {selectCategory(Fired(code, t), rnd).room.currentQuestion.category :
     t \in Due(code, "selectCategory"), rnd \in RandomCategory(rooms[code])}

\* C19: at category resolution the selected category is one of the offered
\* categories with the highest vote count (the unanimous one, if any), every
\* category tied for the highest count is a possible outcome, and with no
\* vote cast every offered category is a possible outcome.
CategoryByMostVotes ==
  \A code \in DOMAIN rooms :
    (rooms[code].phase = "category-select" /\ Due(code, "selectCategory") # {})
      => Outcomes(code) = TopCategories(rooms[code])

(***************************************************************************)
(* Abandoned rooms.                                                        *)
(***************************************************************************)
\* the room code is live, its host connection has closed, and so has every
\* connection that is bound to the room or is the channel of a player of it
Deserted(code) ==
  /\ code \in DOMAIN rooms
  /\ HostGone(rooms[code])
  /\ \A c \in Conns :
       (\/ conns[c].myRoom = code
        \/ \E n \in DOMAIN rooms[code].players : rooms[code].players[n].ws = c)
       => ~Open(c)

\* C20: with the sweep running again and again, every room whose host
\* connection and player connections have all closed is eventually removed
\* from the registry (unless a connection comes to it before), whatever
\* join-room, host-join and close events preceded.
DesertedRoomsRemoved ==
  \A code \in Codes : Deserted(code) ~> ~Deserted(code)

(***************************************************************************)
(* Reveal.                                                                 *)
(***************************************************************************)
\* C21: for each question the reveal scoring runs once: between the
\* selection of a question and the selection of the next one doReveal runs
\* at most once, whether the vote ended by deadline or by the early exit, and
\* a room in the reveal or scoreboard phase has run it for its question.
RevealedOnce ==
  \A code \in DOMAIN rooms :
    /\ rooms[code].reveals <= 1
    /\ rooms[code].phase \in {"reveal", "scoreboard"} => rooms[code].reveals = 1

\* a room in its second game, after a reset, reveals a question on which
\* every connected player has voted
RevealedInSecondGame ==
  \E code \in DOMAIN rooms :
    /\ rooms[code].phase = "reveal"
    /\ rooms[code].reveals = 1
    /\ rooms[code].games = 2
    /\ rooms[code].resets >= 1
    /\ ActivePlayers(rooms[code]) # {}
    /\ ActivePlayers(rooms[code]) \subseteq DOMAIN rooms[code].votes

(***************************************************************************)
(* The answer list.                                                        *)
(***************************************************************************)
\* the answer list of room holds the truth in exactly one slot, the lie of
\* every player who has one recorded in exactly one slot under that player's
\* name, and decoys of the question in its other slots
Composed(room) ==
  LET al == room.answerList
      slots == 1..Len(al)
  IN /\ Cardinality({i \in slots : al[i].isTrue}) = 1
     /\ \A i \in slots :
          al[i].isTrue => al[i].text = room.currentQuestion.answer /\ al[i].author = NoName
     /\ \A name \in DOMAIN room.lies :
          Cardinality({i \in slots : AuthoredBy(room, i, name)}) = 1
     /\ \A i \in slots :
          MachineDecoy(room, i) =>
            al[i].author = GAME /\ al[i].text \in Range(room.currentQuestion.decoys)

\* C22: the answer list is built once per question, on entry to the vote
\* phase; through the vote and reveal phases it holds exactly one true slot,
\* one slot per recorded lie under the name of its author and otherwise
\* machine decoys only, and it keeps the same slots at the same indices
\* until the room leaves the reveal phase.
AnswerListBuiltOnce ==
  /\ [](\A code \in DOMAIN rooms :
          /\ rooms[code].builds <= 1
          /\ rooms[code].phase \in {"vote", "reveal"} =>
               rooms[code].builds = 1 /\ Composed(rooms[code]))
  /\ [][\A code \in DOMAIN rooms \cap DOMAIN rooms' :
          /\ (rooms[code].phase \in {"vote", "reveal"}
                /\ rooms'[code].phase \in {"vote", "reveal"})
               => rooms'[code].answerList = rooms[code].answerList
          /\ rooms'[code].answerList # rooms[code].answerList
               => /\ rooms'[code].phase = "vote"
                  /\ rooms[code].builds = 0 /\ rooms'[code].builds = 1]_vars

\* a room reveals a list of the truth, a player's lie and a machine decoy,
\* on which a vote was cast
ListKeptToReveal ==
  \E code \in DOMAIN rooms :
    /\ rooms[code].phase = "reveal"
    /\ rooms[code].builds = 1
    /\ rooms[code].votes # EmptyMap
    /\ \E i, k \in 1..Len(rooms[code].answerList), name \in DOMAIN rooms[code].lies :
         MachineDecoy(rooms[code], i) /\ AuthoredBy(rooms[code], k, name)

(***************************************************************************)
(* Lies that are not accepted.                                             *)
(***************************************************************************)
\* C23: every submit-lie of a bound player during the lie phase that is not
\* accepted (an empty text, a text of more than 80 characters, a text too
\* similar to the truth) is answered to the sender with a rejection, and
\* leaves the lies, the phase and the pending timer as they were, so that
\* the player may submit again.
UnacceptedLieReported ==
  \A c \in Conns, code \in Codes, lie \in LieInputs :
    LET res == submit_lie(c, lie)
    IN (LieSender(c, code)
          /\ \A i \in 1..Len(res.out) : res.out[i].type # "lie-accepted")
       => /\ res.out = <<[Plain("lie-rejected") EXCEPT !.to = c]>>
          /\ res.rooms = rooms
          /\ res.pending = pending

====
